---- MODULE Spec2Model ----
(***************************************************************************)
(* Model of the transit-graph compiler of pelo-android                     *)
(* (scripts/build_graph.py): generate_graph as a staged state machine.     *)
(*                                                                         *)
(* Python str values on which the code does string work (stop ids, node    *)
(* ids, stop names, arrival times) are sequences of one-character strings. *)
(* Coordinates are integers in units of 1e-5 degree, edge lengths are      *)
(* integers in tenths of a second, hours are whole hours.                  *)
(***************************************************************************)
EXTENDS Integers, Sequences, FiniteSets, TLC

VARIABLES
    pc,               \* position inside generate_graph
    service_ids_by_date, \* calendar of the archive: services per date
    zip_stop_times,   \* stop_times table of the archive
    services,         \* local services
    start_hour,       \* argument start_hour
    end_hour,         \* argument end_hour
    stop_times,       \* feed.stop_times as loaded
    st,               \* local st
    st_active,        \* local st_active
    search_start,     \* local search_start
    search_end,       \* local search_end
    is_deep_night,    \* local is_deep_night
    name_to_lines,    \* local name_to_lines
    id_to_name_map,   \* local id_to_name_map
    coord_map,        \* local coord_map
    G,                \* raw multigraph returned by the feed-graph builder
    grouped_nodes,    \* local grouped_nodes (insertion-ordered dict)
    nodes_list,       \* local nodes_list
    node_name_to_id,  \* local node_name_to_id
    orig_to_new_id,   \* local orig_to_new_id
    edges_list,       \* local edges_list
    artifact,         \* content of output_json_path
    first_artifact,   \* artifact of an earlier compilation of the same input
    date_str,         \* argument date_str (--date): absent or one str
    target_lines,     \* argument target_lines (--lines): absent or one str
    erreur_graphe,    \* "Erreur Graphe" was printed (line 192)
    batch_pc,         \* generate_full_day.main: position
    gtfs_found,       \* os.path.exists(GTFS_FILE)
    worker_found,     \* a worker script exists at one of the two paths
    next_slot,        \* generate_full_day.main: start_h of the next loop turn
    launched,         \* the worker command lines handed to subprocess.run
    reported,         \* the failure messages printed by the batch driver
    color_map,        \* find_route.color_map
    color_idx,        \* find_route.color_idx
    returned,         \* the value returned by the last get_route_color call
    db_pc,            \* sqlize_gtfs.process_gtfs_schedules: position
    route_names,      \* final_df: the route_name values of each station_name
    arrets            \* table arrets: nom -> desserte

\* the state of one generate_graph call
graphVars == <<pc, service_ids_by_date, zip_stop_times, services, start_hour,
               end_hour, stop_times, st, st_active, search_start, search_end,
               is_deep_night, name_to_lines, id_to_name_map, coord_map, G,
               grouped_nodes, nodes_list, node_name_to_id, orig_to_new_id,
               edges_list, artifact, first_artifact, date_str, target_lines,
               erreur_graphe>>

\* the state of the full-day batch driver
batchVars == <<batch_pc, gtfs_found, worker_found, next_slot, launched, reported>>

\* the module state of find_route
colorVars == <<color_map, color_idx, returned>>

\* the state of the schedule database build
dbVars == <<db_pc, route_names, arrets>>

\* what no step of generate_graph changes
otherVars == <<date_str, target_lines, batchVars, colorVars, dbVars>>

vars == <<graphVars, batchVars, colorVars, dbVars>>

\* ------------------------------------------------------------------ bounds
MaxNodes == 3

MaxEdges == 2

MaxActive == 3

MaxRows == 2

\* launches of a batch run that fail with an exception
MaxLaunchErrors == 1

\* distinct route ids on the path of one route search
MaxRoutes == 8

\* lines serving one station of the feed
MaxLines == 2

\* ----------------------------------------------------------- Python strings
Chars == {" ", "\"", ",", "-", ".", ":", "0", "1", "2", "3", "4", "5", "6", "7",
          "8", "9", "A", "B", "C", "D", "F", "I", "N", "P", "T", "U", "V", "X",
          "Z", "_", "a", "b", "c", "k", "n", "o", "w"}

\* ord(c)
CharCode(c) ==
    CASE c = " "  -> 32 [] c = "\"" -> 34 [] c = ","  -> 44 [] c = "-" -> 45
      [] c = "."  -> 46 [] c = ":"  -> 58
      [] c = "0"  -> 48 [] c = "1"  -> 49 [] c = "2"  -> 50 [] c = "3" -> 51
      [] c = "4"  -> 52 [] c = "5"  -> 53 [] c = "6"  -> 54 [] c = "7" -> 55
      [] c = "8"  -> 56 [] c = "9"  -> 57 [] c = "A"  -> 65 [] c = "B" -> 66
      [] c = "C"  -> 67 [] c = "D"  -> 68 [] c = "F"  -> 70 [] c = "I" -> 73
      [] c = "N"  -> 78 [] c = "P"  -> 80 [] c = "T"  -> 84 [] c = "U" -> 85
      [] c = "V"  -> 86 [] c = "X"  -> 88 [] c = "Z"  -> 90
      [] c = "_"  -> 95 [] c = "a"  -> 97 [] c = "b"  -> 98 [] c = "c"  -> 99
      [] c = "k"  -> 107 [] c = "n" -> 110 [] c = "o" -> 111 [] c = "w" -> 119

\* a < b for two str values (lexicographic by code point)
RECURSIVE StrLess(_, _)
StrLess(a, b) ==
    IF b = << >> THEN FALSE
    ELSE IF a = << >> THEN TRUE
    ELSE IF CharCode(Head(a)) # CharCode(Head(b))
         THEN CharCode(Head(a)) < CharCode(Head(b))
    ELSE StrLess(Tail(a), Tail(b))

RECURSIVE LStrip(_)
LStrip(s) == IF s # << >> /\ Head(s) = " " THEN LStrip(Tail(s)) ELSE s

RECURSIVE RStrip(_)
RStrip(s) ==
    IF s # << >> /\ s[Len(s)] = " " THEN RStrip(SubSeq(s, 1, Len(s) - 1)) ELSE s

\* s.strip()
Strip(s) == RStrip(LStrip(s))

\* s.endswith(".0")
EndsWithDotZero(s) == Len(s) >= 2 /\ s[Len(s) - 1] = "." /\ s[Len(s)] = "0"

\* s.replace('"', '')
IsNotQuote(c) == c # "\""

RemoveQuotes(s) == SelectSeq(s, IsNotQuote)

\* str(n) for a non-negative int
Digit(d) ==
    CASE d = 0 -> "0" [] d = 1 -> "1" [] d = 2 -> "2" [] d = 3 -> "3"
      [] d = 4 -> "4" [] d = 5 -> "5" [] d = 6 -> "6" [] d = 7 -> "7"
      [] d = 8 -> "8" [] d = 9 -> "9"

RECURSIVE IntToStr(_)
IntToStr(n) == IF n < 10 THEN <<Digit(n)>> ELSE Append(IntToStr(n \div 10), Digit(n % 10))

\* dict.get(k, default) on a dict modelled as a function
DictGet(d, k, default) == IF k \in DOMAIN d THEN d[k] ELSE default

EmptyDict == [k \in {} |-> 0]

\* -------------------------------------------------------- build_graph.py
clean_val(val) ==
    LET s == Strip(val)
    IN  IF EndsWithDotZero(s) THEN SubSeq(s, 1, Len(s) - 2) ELSE s

\* str(stop_name).replace('"', '').strip()
CleanName(stop_name) == Strip(RemoveQuotes(stop_name))

Unknown == <<"U", "n", "k", "n", "o", "w", "n">>

\* round(v, 4) of a coordinate given in 1e-5 degree: nearest multiple of 10,
\* a tie going to the even fourth decimal
Round4(v) ==
    LET q == v \div 10
        r == v % 10
    IN  IF r < 5 THEN 10 * q
        ELSE IF r > 5 THEN 10 * (q + 1)
        ELSE IF q % 2 = 0 THEN 10 * q ELSE 10 * (q + 1)

get_stop_name_spatial(node_data, cmap, id_map, raw_id) ==
    LET cid == clean_val(raw_id)
    IN  IF cid \in DOMAIN id_map THEN id_map[cid]
        ELSE DictGet(cmap, <<Round4(node_data.x), Round4(node_data.y)>>, Unknown)

\* ------------------------------------------------------------ feed tables
\* feed.stops: rows in file order; an empty parent_station is a missing one
feed_stops == <<
    [stop_id |-> <<"7">>, stop_name |-> <<"B">>,
     stop_lon |-> 100, stop_lat |-> 200, parent_station |-> << >>],
    [stop_id |-> <<"8">>, stop_name |-> <<"\"", "B", "\"", " ">>,
     stop_lon |-> 100, stop_lat |-> 210, parent_station |-> <<"7">>],
    [stop_id |-> <<"9", ".", "0">>, stop_name |-> <<"P">>,
     stop_lon |-> 304, stop_lat |-> 407, parent_station |-> <<"7">>] >>

\* feed.trips: trip_id -> route_id, service_id
feed_trips ==
    [t \in {"tA", "tC", "tP", "tO"} |->
        CASE t = "tA" -> [route_id |-> "rA", service_id |-> "s1"]
          [] t = "tC" -> [route_id |-> "rC", service_id |-> "s1"]
          [] t = "tP" -> [route_id |-> "rC", service_id |-> "s0"]
          [] t = "tO" -> [route_id |-> "rX", service_id |-> "s1"]]

\* feed.routes: route_id -> route_type, route_short_name ("rX" has no row)
feed_routes ==
    [r \in {"rA", "rC"} |->
        CASE r = "rA" -> [route_type |-> 1, route_short_name |-> "A"]
          [] r = "rC" -> [route_type |-> 3, route_short_name |-> "C1"]]

\* -------------------------------------------- mapping of line names (163-186)
\* str() of the value pandas gives a route_id that route_map does not hold
NaN == "nan"

\* route_map = feed.routes.set_index('route_id')['route_short_name'].to_dict()
route_map == [r \in DOMAIN feed_routes |-> feed_routes[r].route_short_name]

\* pd.merge(st_active, trips_mini, on='trip_id', how='inner') with the columns
\* line_name and clean_stop_id added
Merged(active) ==
    { [clean_stop_id |-> clean_val(row.stop_id),
       line_name |-> DictGet(route_map, feed_trips[row.trip_id].route_id, NaN)] :
      row \in {r \in active : r.trip_id \in DOMAIN feed_trips} }

\* stops_df.set_index('clean_id')['stop_name'].to_dict(): the last row of a
\* clean id wins
IdToNameMap(stops) ==
    [cid \in {clean_val(stops[i].stop_id) : i \in DOMAIN stops} |->
        LET last == CHOOSE i \in DOMAIN stops :
                        /\ clean_val(stops[i].stop_id) = cid
                        /\ \A j \in DOMAIN stops :
                               clean_val(stops[j].stop_id) = cid => j <= i
        IN  stops[last].stop_name]

\* merged.groupby('clean_stop_id')['line_name'].apply(set).to_dict()
IdToLines(active) ==
    [sid \in {m.clean_stop_id : m \in Merged(active)} |->
        {m.line_name : m \in {mm \in Merged(active) : mm.clean_stop_id = sid}}]

\* the loop of lines 175-180
NameToLines(active, id_map) ==
    LET id_to_lines == IdToLines(active)
        NameOf(sid) == CleanName(DictGet(id_map, sid, Unknown))
    IN  [clean \in {NameOf(sid) : sid \in DOMAIN id_to_lines} |->
            UNION {id_to_lines[sid] :
                   sid \in {s \in DOMAIN id_to_lines : NameOf(s) = clean}}]

\* the loop of lines 183-186: the last row of a rounded coordinate wins
CoordMap(stops) ==
    LET Key(i) == <<Round4(stops[i].stop_lon), Round4(stops[i].stop_lat)>>
    IN  [k \in {Key(i) : i \in DOMAIN stops} |->
            LET last == CHOOSE i \in DOMAIN stops :
                            Key(i) = k /\ \A j \in DOMAIN stops : Key(j) = k => j <= i
            IN  stops[last].stop_name]

\* ------------------------------------------ the feed-graph builder's output
\* nodes the builder can generate: id, x, y and the raw mode attribute
NodeUniverse == {
    [id |-> <<"1", "0">>, x |-> 302, y |-> 412, modes |-> {"C1"}],
    [id |-> <<"7">>, x |-> 100, y |-> 200, modes |-> {"A"}],
    [id |-> <<"8">>, x |-> 100, y |-> 210, modes |-> {"T1"}],
    [id |-> <<"X", "_", "9">>, x |-> 900, y |-> 900, modes |-> {}],
    [id |-> <<"Z">>, x |-> 800, y |-> 800, modes |-> {}] }

\* edge lengths in tenths of a second: 280.9 s and 300.0 s
Lengths == {2809, 3000}

NodeSets ==
    {ns \in SUBSET NodeUniverse :
        /\ Cardinality(ns) <= MaxNodes
        /\ \A a, b \in ns : a.id = b.id => a = b}

\* the builder links two distinct platforms that a trip visits in a row
EdgesOf(ns) ==
    {e \in {[u |-> a.id, v |-> b.id, length |-> l] : a \in ns, b \in ns, l \in Lengths} :
        e.u # e.v}

\* G.edges(data=True) of a MultiDiGraph iterates source by source and, for a
\* source, target by target
EdgeOrderOK(es) ==
    \A i, j, k \in DOMAIN es :
        (i < j /\ j < k) =>
            /\ es[i].u = es[k].u => es[j].u = es[i].u
            /\ (es[i].u = es[k].u /\ es[i].v = es[k].v) => es[j].v = es[i].v

EdgeSeqs(ns) ==
    {es \in UNION {[1..k -> EdgesOf(ns)] : k \in 0..MaxEdges} : EdgeOrderOK(es)}

EmptyGraph == [nodes |-> {}, edges |-> << >>]

\* the stops the stop_times handed to the builder visit
VisitedStops(active) == {clean_val(r.stop_id) : r \in active}

\* the builder makes one node per platform visited: no more nodes than stops
\* visited, and so the empty graph for an empty timetable
BuilderNodeSets(active) ==
    {ns \in NodeSets : Cardinality(ns) <= Cardinality(VisitedStops(active))}

\* ------------------------------------------------------ export JSON (195-247)
\* mutant of SortedNodes: the raw ids compared as numbers (shorter first)
\* instead of by their string form
RECURSIVE SortedNodesNumeric(_)
SortedNodesNumeric(ns) ==
    IF ns = {} THEN << >>
    ELSE LET first == CHOOSE n \in ns : \A o \in ns \ {n} :
                          \/ Len(n.id) < Len(o.id)
                          \/ (Len(n.id) = Len(o.id) /\ StrLess(n.id, o.id))
         IN  <<first>> \o SortedNodesNumeric(ns \ {first})

\* sorted(list(G.nodes(data=True)), key=lambda x: str(x[0]))
RECURSIVE SortedNodes(_)
SortedNodes(ns) ==
    IF ns = {} THEN << >>
    ELSE LET first == CHOOSE n \in ns : \A o \in ns \ {n} : StrLess(n.id, o.id)
         IN  <<first>> \o SortedNodes(ns \ {first})

\* position of name among the keys of grouped_nodes, 0 when absent
KeyIndex(grouped, name) ==
    IF \E i \in DOMAIN grouped : grouped[i].name = name
    THEN CHOOSE i \in DOMAIN grouped : grouped[i].name = name
    ELSE 0

\* valid_modes = {m for m in real_modes if m and str(m) != 'nan'}
ValidModes(real_modes) == {m \in real_modes : m # "" /\ m # "nan"}

\* mutant of GroupStep: the resolved name is used as the key without the
\* cleaning of line 206
GroupStepRawName(grouped, node, n2l, cmap, id_map) ==
    LET raw_name    == get_stop_name_spatial(node, cmap, id_map, node.id)
        valid_modes == ValidModes(DictGet(n2l, raw_name, {}))
        withKey     == IF KeyIndex(grouped, raw_name) = 0
                       THEN Append(grouped, [name |-> raw_name, x |-> 0, y |-> 0,
                                             count |-> 0, modes |-> {}])
                       ELSE grouped
        i           == KeyIndex(withKey, raw_name)
    IN  [withKey EXCEPT ![i] = [name  |-> raw_name,
                                x     |-> @.x + node.x,
                                y     |-> @.y + node.y,
                                count |-> @.count + 1,
                                modes |-> @.modes \cup valid_modes]]

\* body of the loop of lines 204-217 for one raw node
GroupStep(grouped, node, n2l, cmap, id_map) ==
    LET clean_name  == CleanName(get_stop_name_spatial(node, cmap, id_map, node.id))
        valid_modes == ValidModes(DictGet(n2l, clean_name, {}))
        withKey     == IF KeyIndex(grouped, clean_name) = 0
                       THEN Append(grouped, [name |-> clean_name, x |-> 0, y |-> 0,
                                             count |-> 0, modes |-> {}])
                       ELSE grouped
        i           == KeyIndex(withKey, clean_name)
    IN  [withKey EXCEPT ![i] = [name  |-> clean_name,
                                x     |-> @.x + node.x,
                                y     |-> @.y + node.y,
                                count |-> @.count + 1,
                                modes |-> @.modes \cup valid_modes]]

\* the loop of lines 204-217 over sorted_nodes
RECURSIVE GroupLoop(_, _, _, _, _)
GroupLoop(grouped, sorted_nodes, n2l, cmap, id_map) ==
    IF sorted_nodes = << >> THEN grouped
    ELSE GroupLoop(GroupStep(grouped, Head(sorted_nodes), n2l, cmap, id_map),
                   Tail(sorted_nodes), n2l, cmap, id_map)

\* the orders in which list(a_set) can enumerate a set of str
ListsOf(S) ==
    {l \in [1..Cardinality(S) -> S] : \A i, j \in DOMAIN l : i # j => l[i] # l[j]}

\* one enumeration order per key of grouped_nodes
ModeOrders(grouped) ==
    {o \in [DOMAIN grouped -> UNION {ListsOf(T) : T \in SUBSET (UNION {grouped[i].modes : i \in DOMAIN grouped})}] :
        \A i \in DOMAIN grouped : o[i] \in ListsOf(grouped[i].modes)}

\* mutant of NodeObj: ids counted from 1
NodeObjOneBased(idx, data, modes_list) ==
    [id            |-> IntToStr(idx + 1),
     name          |-> data.name,
     x             |-> data.x \div data.count,
     y             |-> data.y \div data.count,
     modes         |-> modes_list,
     boarding_cost |-> 0]

\* node_obj of lines 220-227 for the idx-th key (idx counts from 0)
NodeObj(idx, data, modes_list) ==
    [id            |-> IntToStr(idx),
     name          |-> data.name,
     x             |-> data.x \div data.count,
     y             |-> data.y \div data.count,
     modes         |-> modes_list,
     boarding_cost |-> 0]

\* nodes_list after the loop of lines 219-229
NodesList(grouped, orders) ==
    [i \in DOMAIN grouped |-> NodeObj(i - 1, grouped[i], orders[i])]

\* mutant of NodeNameToId: the names are numbered from 1
NodeNameToIdFromOne(grouped) ==
    [name \in {grouped[i].name : i \in DOMAIN grouped} |->
        KeyIndex(grouped, name)]

\* node_name_to_id after the loop of lines 219-229
NodeNameToId(grouped) ==
    [name \in {grouped[i].name : i \in DOMAIN grouped} |->
        KeyIndex(grouped, name) - 1]

\* orig_to_new_id after the loop of lines 231-235
OrigToNewId(nodes, cmap, id_map, name_to_id) ==
    LET clean(n) == CleanName(get_stop_name_spatial(n, cmap, id_map, n.id))
    IN  [nid \in {n.id : n \in {m \in nodes : clean(m) \in DOMAIN name_to_id}} |->
            LET n == CHOOSE m \in nodes : m.id = nid
            IN  name_to_id[clean(n)]]

\* mutant of IntSeconds: the length is rounded to the nearest second
IntSecondsRounded(length) == (length + 5) \div 10

\* int(float(data.get("length", 0))) of a length in tenths of a second
IntSeconds(length) == length \div 10

\* mutant of EdgeStep: the test of line 241 is missing
EdgeStepKeepLoops(edges, e, o2n) ==
    IF e.u \in DOMAIN o2n /\ e.v \in DOMAIN o2n
    THEN Append(edges, <<o2n[e.u], o2n[e.v], IntSeconds(e.length)>>)
    ELSE edges

\* body of the loop of lines 237-242 for one raw edge
EdgeStep(edges, e, o2n) ==
    IF e.u \in DOMAIN o2n /\ e.v \in DOMAIN o2n
    THEN IF o2n[e.u] = o2n[e.v] THEN edges
         ELSE Append(edges, <<o2n[e.u], o2n[e.v], IntSeconds(e.length)>>)
    ELSE edges

\* edges_list after the loop of lines 237-242
RECURSIVE EdgesLoop(_, _, _)
EdgesLoop(edges, raw_edges, o2n) ==
    IF raw_edges = << >> THEN edges
    ELSE EdgesLoop(EdgeStep(edges, Head(raw_edges), o2n), Tail(raw_edges), o2n)

\* -------------------------------------------------- time parsing (36-42)
IsDigits(s) ==
    /\ s # << >>
    /\ \A i \in DOMAIN s : s[i] \in {"0", "1", "2", "3", "4", "5", "6", "7", "8", "9"}

\* int(s) of a str of decimal digits
RECURSIVE DigitsVal(_)
DigitsVal(s) ==
    IF s = << >> THEN 0
    ELSE 10 * DigitsVal(SubSeq(s, 1, Len(s) - 1)) + (CharCode(s[Len(s)]) - 48)

\* s.split(sep)
RECURSIVE Split(_, _)
Split(s, sep) ==
    IF \A i \in DOMAIN s : s[i] # sep THEN <<s>>
    ELSE LET k == CHOOSE i \in DOMAIN s :
                      s[i] = sep /\ \A j \in 1..(i - 1) : s[j] # sep
         IN  <<SubSeq(s, 1, k - 1)>> \o Split(SubSeq(s, k + 1, Len(s)), sep)

\* mutant of robust_time_to_seconds: a value that fails to parse gives 0
robust_time_to_seconds_zero(val) ==
    LET parts == Split(Strip(val), ":")
    IN  IF Len(parts) < 3 THEN 0
        ELSE LET sec == Split(parts[3], ".")[1]
             IN  IF IsDigits(parts[1]) /\ IsDigits(parts[2]) /\ IsDigits(sec)
                 THEN DigitsVal(parts[1]) * 3600 + DigitsVal(parts[2]) * 60
                      + DigitsVal(sec)
                 ELSE 0

\* the str branch of robust_time_to_seconds; any exception gives -1
robust_time_to_seconds(val) ==
    LET parts == Split(Strip(val), ":")
    IN  IF Len(parts) < 3 THEN -1
        ELSE LET sec == Split(parts[3], ".")[1]
             IN  IF IsDigits(parts[1]) /\ IsDigits(parts[2]) /\ IsDigits(sec)
                 THEN DigitsVal(parts[1]) * 3600 + DigitsVal(parts[2]) * 60
                      + DigitsVal(sec)
                 ELSE -1

\* ------------------------------------------- service resolution (64-77)
\* services per date, for the dates target_date and prev_date
Today == "target_date"

Yesterday == "prev_date"

\* mutant of Services: the previous date is joined before 4:00 only
ServicesBeforeFour(by_date, start_h) ==
    IF start_h < 4 THEN by_date[Today] \cup by_date[Yesterday]
    ELSE by_date[Today]

Services(by_date, start_h) ==
    IF start_h < 5 THEN by_date[Today] \cup by_date[Yesterday]
    ELSE by_date[Today]

\* ptg.load_feed(zip_path, view={'trips.txt': {'service_id': list(services)}}):
\* the stop_times of the trips of these services
LoadFeedStopTimes(rows, svc) ==
    {r \in rows : r.trip_id \in DOMAIN feed_trips
                  /\ feed_trips[r.trip_id].service_id \in svc}

\* ---------------------------------------------------- filtering (86-105)
\* pd.to_numeric(st['pickup_type'], errors='coerce').fillna(0)
PickupNumeric(p) == IF IsDigits(p) THEN DigitsVal(p) ELSE 0

\* mutant of PickupFilter: no row is removed
PickupFilterKeepsAll(rows) == rows

\* st after lines 89-91
PickupFilter(rows) == {r \in rows : PickupNumeric(r.pickup_type) # 1}

\* st['seconds'] of a row
Seconds(r) == robust_time_to_seconds(r.arrival_time)

\* start_sec = int(start_hour * 3600)
SecOfHour(h) == h * 3600

DaySeconds == 86400

\* rows selected by mask_std / mask_ext for the window lo..hi
Mask(rows, lo, hi) == {r \in rows : Seconds(r) >= lo /\ Seconds(r) <= hi}

\* mutant of NightMode: a tie selects the extended window
NightModeOnTie(rows, start_h, end_h) ==
    Cardinality(Mask(rows, SecOfHour(start_h) + DaySeconds, SecOfHour(end_h) + DaySeconds))
      >= Cardinality(Mask(rows, SecOfHour(start_h), SecOfHour(end_h)))

\* mask_ext.sum() > mask_std.sum()
NightMode(rows, start_h, end_h) ==
    Cardinality(Mask(rows, SecOfHour(start_h) + DaySeconds, SecOfHour(end_h) + DaySeconds))
      > Cardinality(Mask(rows, SecOfHour(start_h), SecOfHour(end_h)))

\* ------------------------------------------ deep-night metro removal (112-145)
IsDeepNight(start_h, end_h) == 1 <= start_h /\ start_h <= 4

\* mutant of ValidTrips: the wrong route_type code (0 is tram) is excluded
ValidTripsNotTram(active) ==
    {r.trip_id : r \in {a \in active :
        /\ a.trip_id \in DOMAIN feed_trips
        /\ feed_trips[a.trip_id].route_id \in DOMAIN feed_routes
        /\ feed_routes[feed_trips[a.trip_id].route_id].route_type # 0}}

\* trip ids of merged_check[merged_check['route_type'] != 1]
ValidTrips(active) ==
    {r.trip_id : r \in {a \in active :
        /\ a.trip_id \in DOMAIN feed_trips
        /\ feed_trips[a.trip_id].route_id \in DOMAIN feed_routes
        /\ feed_routes[feed_trips[a.trip_id].route_id].route_type # 1}}

\* st_active after line 141
MetroFilter(active) == {r \in active : r.trip_id \in ValidTrips(active)}

\* ------------------------------------------------------------- inputs
T0200 == <<"2", ":", "0", "0", ":", "0", "0">>

T0400 == <<"0", "4", ":", "0", "0", ":", "0", "0">>

T0530 == <<"5", ":", "3", "0", ":", "0", "0">>

T0800 == <<"0", "8", ":", "0", "0", ":", "0", "0">>

T2600 == <<"2", "6", ":", "0", "0", ":", "0", "0">>

T2800 == <<"2", "8", ":", "0", "0", ":", "0", "0">>

Tabc == <<"a", "b", "c">>

Row(t, s, a, p) == [trip_id |-> t, stop_id |-> s, arrival_time |-> a, pickup_type |-> p]

\* stop_times rows an archive can hold
RowUniverse == {
    Row("tA", <<"7">>, T0200, <<"0">>),
    Row("tA", <<"8">>, T0400, <<"0">>),
    Row("tA", <<"7">>, T2600, <<"0">>),
    Row("tC", <<"7">>, T0200, <<"0">>),
    Row("tC", <<"8">>, T0400, <<"0">>),
    Row("tC", <<"7">>, T0200, <<"1">>),
    Row("tC", <<"9", ".", "0">>, T0530, <<"0">>),
    Row("tC", <<"8">>, T2800, << >>),
    Row("tC", <<"8">>, Tabc, <<"0">>),
    Row("tP", <<"7">>, T2600, <<"X">>),
    Row("tO", <<"8">>, T0200, <<"0">>) }

\* the (start_hour, end_hour) pairs compiled
Windows == {<<0, 1>>, <<1, 4>>, <<2, 2>>, <<3, 6>>, <<4, 5>>, <<5, 6>>}

Calendars == {
    [d \in {Today, Yesterday} |-> IF d = Today THEN {"s1"} ELSE {"s0"}],
    [d \in {Today, Yesterday} |-> IF d = Today THEN {} ELSE {"s0"}],
    [d \in {Today, Yesterday} |-> {}] }

\* stop_times rows of the 8h-9h window handed to the mapping stage
ActiveUniverse == {
    Row("tA", <<"7">>, T0800, <<"0">>),
    Row("tC", <<"8">>, T0800, <<"0">>),
    Row("tC", <<"9", ".", "0">>, T0800, <<"0">>),
    Row("tO", <<"9", ".", "0">>, T0800, <<"0">>) }

\* ------------------------------------------------------------- the machine
NoFile == << >>

LocalsBlank ==
    /\ grouped_nodes = << >>
    /\ nodes_list = << >>
    /\ node_name_to_id = EmptyDict
    /\ orig_to_new_id = EmptyDict
    /\ edges_list = << >>
    /\ artifact = NoFile
    /\ first_artifact = NoFile

MapsBlank ==
    /\ name_to_lines = EmptyDict
    /\ id_to_name_map = EmptyDict
    /\ coord_map = EmptyDict
    /\ G = EmptyGraph

\* an optional argument that was not given (None)
NoArg == << >>

\* a --date value in the format of line 64
DateISO == <<"2", "0", "2", "6", "-", "1", "1", "-", "0", "6">>

\* the batch driver, the route search and the database build are not running
BatchIdle ==
    /\ batch_pc = "idle"
    /\ gtfs_found = TRUE
    /\ worker_found = TRUE
    /\ next_slot = 0
    /\ launched = << >>
    /\ reported = << >>

ColorsIdle ==
    /\ color_map = EmptyDict
    /\ color_idx = 0
    /\ returned = << >>

DbIdle ==
    /\ db_pc = "idle"
    /\ route_names = EmptyDict
    /\ arrets = EmptyDict

\* generate_graph entered with an archive, a date and a window
InitWindow ==
    /\ pc = "load"
    /\ \E w \in Windows : start_hour = w[1] /\ end_hour = w[2]
    /\ service_ids_by_date \in Calendars
    /\ zip_stop_times \in {rs \in SUBSET RowUniverse : Cardinality(rs) <= MaxRows}
    /\ services = {}
    /\ stop_times = {}
    /\ st = {}
    /\ st_active = {}
    /\ search_start = 0
    /\ search_end = 0
    /\ is_deep_night = FALSE
    /\ MapsBlank
    /\ LocalsBlank
    /\ date_str = <<DateISO>>
    /\ target_lines = NoArg
    /\ erreur_graphe = FALSE
    /\ BatchIdle
    /\ ColorsIdle
    /\ DbIdle

\* generate_graph at line 157, after the filtering of an 8h-9h window
Init ==
    /\ pc = "maps"
    /\ start_hour = 8
    /\ end_hour = 9
    /\ service_ids_by_date \in {c \in Calendars : c[Today] = {"s1"}}
    /\ zip_stop_times \in {rs \in SUBSET ActiveUniverse :
                              rs # {} /\ Cardinality(rs) <= MaxActive}
    /\ services = service_ids_by_date[Today]
    /\ stop_times = zip_stop_times
    /\ st = zip_stop_times
    /\ st_active = zip_stop_times
    /\ search_start = SecOfHour(8)
    /\ search_end = SecOfHour(9)
    /\ is_deep_night = FALSE
    /\ MapsBlank
    /\ LocalsBlank
    /\ date_str = <<DateISO>>
    /\ target_lines = NoArg
    /\ erreur_graphe = FALSE
    /\ BatchIdle
    /\ ColorsIdle
    /\ DbIdle

\* lines 64-81
LoadFeed ==
    /\ pc = "load"
    /\ services' = Services(service_ids_by_date, start_hour)
    /\ IF services' = {}
       THEN /\ pc' = "done"
            /\ stop_times' = stop_times
       ELSE /\ pc' = "filter"
            /\ stop_times' = LoadFeedStopTimes(zip_stop_times, services')
    /\ UNCHANGED <<service_ids_by_date, zip_stop_times, start_hour, end_hour, st,
                   st_active, search_start, search_end, is_deep_night,
                   name_to_lines, id_to_name_map, coord_map, G, grouped_nodes,
                   nodes_list, node_name_to_id, orig_to_new_id, edges_list,
                   artifact, first_artifact>>
    /\ UNCHANGED <<erreur_graphe, otherVars>>

\* lines 86-105
FilterWindow ==
    /\ pc = "filter"
    /\ st' = PickupFilter(stop_times)
    /\ IF NightMode(st', start_hour, end_hour)
       THEN /\ search_start' = SecOfHour(start_hour) + DaySeconds
            /\ search_end' = SecOfHour(end_hour) + DaySeconds
       ELSE /\ search_start' = SecOfHour(start_hour)
            /\ search_end' = SecOfHour(end_hour)
    /\ st_active' = Mask(st', search_start', search_end')
    /\ pc' = "emptiness"
    /\ UNCHANGED <<service_ids_by_date, zip_stop_times, services, start_hour,
                   end_hour, stop_times, is_deep_night, name_to_lines,
                   id_to_name_map, coord_map, G, grouped_nodes, nodes_list,
                   node_name_to_id, orig_to_new_id, edges_list, artifact,
                   first_artifact>>
    /\ UNCHANGED <<erreur_graphe, otherVars>>

\* mutant of WriteEmpty: the function returns without writing the file
WriteEmptyNoFile ==
    /\ pc = "emptiness"
    /\ st_active = {}
    /\ pc' = "done"
    /\ UNCHANGED <<service_ids_by_date, zip_stop_times, services, start_hour,
                   end_hour, stop_times, st, st_active, search_start, search_end,
                   is_deep_night, name_to_lines, id_to_name_map, coord_map, G,
                   grouped_nodes, nodes_list, node_name_to_id, orig_to_new_id,
                   edges_list, artifact, first_artifact>>
    /\ UNCHANGED <<erreur_graphe, otherVars>>

\* lines 107-110: the empty artifact
WriteEmpty ==
    /\ pc = "emptiness"
    /\ st_active = {}
    /\ artifact' = <<[nodes |-> << >>, edges |-> << >>]>>
    /\ pc' = "done"
    /\ UNCHANGED <<service_ids_by_date, zip_stop_times, services, start_hour,
                   end_hour, stop_times, st, st_active, search_start, search_end,
                   is_deep_night, name_to_lines, id_to_name_map, coord_map, G,
                   grouped_nodes, nodes_list, node_name_to_id, orig_to_new_id,
                   edges_list, first_artifact>>
    /\ UNCHANGED <<erreur_graphe, otherVars>>

\* lines 112-145
DeepNight ==
    /\ pc = "emptiness"
    /\ st_active # {}
    /\ is_deep_night' = IsDeepNight(start_hour, end_hour)
    /\ st_active' = IF is_deep_night' THEN MetroFilter(st_active) ELSE st_active
    /\ pc' = "maps"
    /\ UNCHANGED <<service_ids_by_date, zip_stop_times, services, start_hour,
                   end_hour, stop_times, st, search_start, search_end,
                   name_to_lines, id_to_name_map, coord_map, G, grouped_nodes,
                   nodes_list, node_name_to_id, orig_to_new_id, edges_list,
                   artifact, first_artifact>>
    /\ UNCHANGED <<erreur_graphe, otherVars>>

\* lines 163-186
BuildMaps ==
    /\ pc = "maps"
    /\ id_to_name_map' = IdToNameMap(feed_stops)
    /\ name_to_lines' = NameToLines(st_active, id_to_name_map')
    /\ coord_map' = CoordMap(feed_stops)
    /\ pc' = "builder"
    /\ UNCHANGED <<service_ids_by_date, zip_stop_times, services, start_hour,
                   end_hour, stop_times, st, st_active, search_start, search_end,
                   is_deep_night, G, grouped_nodes, nodes_list, node_name_to_id,
                   orig_to_new_id, edges_list, artifact, first_artifact>>
    /\ UNCHANGED <<erreur_graphe, otherVars>>

\* line 190: pt.load_feed_as_graph returns a raw multigraph
BuilderReturns ==
    /\ pc = "builder"
    /\ \E ns \in BuilderNodeSets(st_active) : \E es \in EdgeSeqs(ns) :
           G' = [nodes |-> ns, edges |-> es]
    /\ pc' = "group"
    /\ UNCHANGED <<service_ids_by_date, zip_stop_times, services, start_hour,
                   end_hour, stop_times, st, st_active, search_start, search_end,
                   is_deep_night, name_to_lines, id_to_name_map, coord_map,
                   grouped_nodes, nodes_list, node_name_to_id, orig_to_new_id,
                   edges_list, artifact, first_artifact>>
    /\ UNCHANGED <<erreur_graphe, otherVars>>

\* mutant of BuilderRaises: the exception leaves generate_graph
BuilderRaisesPropagates ==
    /\ pc = "builder"
    /\ erreur_graphe' = TRUE
    /\ pc' = "raised"
    /\ UNCHANGED <<service_ids_by_date, zip_stop_times, services, start_hour,
                   end_hour, stop_times, st, st_active, search_start, search_end,
                   is_deep_night, name_to_lines, id_to_name_map, coord_map, G,
                   grouped_nodes, nodes_list, node_name_to_id, orig_to_new_id,
                   edges_list, artifact, first_artifact>>
    /\ UNCHANGED otherVars

\* lines 191-193: pt.load_feed_as_graph raises
BuilderRaises ==
    /\ pc = "builder"
    /\ G' = EmptyGraph
    /\ pc' = "group"
    /\ UNCHANGED <<service_ids_by_date, zip_stop_times, services, start_hour,
                   end_hour, stop_times, st, st_active, search_start, search_end,
                   is_deep_night, name_to_lines, id_to_name_map, coord_map,
                   grouped_nodes, nodes_list, node_name_to_id, orig_to_new_id,
                   edges_list, artifact, first_artifact>>
    /\ erreur_graphe' = TRUE
    /\ UNCHANGED otherVars

\* lines 202-217
GroupNodes ==
    /\ pc = "group"
    /\ grouped_nodes' = GroupLoop(<< >>, SortedNodes(G.nodes), name_to_lines,
                                  coord_map, id_to_name_map)
    /\ pc' = "nodes"
    /\ UNCHANGED <<service_ids_by_date, zip_stop_times, services, start_hour,
                   end_hour, stop_times, st, st_active, search_start, search_end,
                   is_deep_night, name_to_lines, id_to_name_map, coord_map, G,
                   nodes_list, node_name_to_id, orig_to_new_id, edges_list,
                   artifact, first_artifact>>
    /\ UNCHANGED <<erreur_graphe, otherVars>>

\* lines 219-235: the node list and the two id maps; list(data["modes"])
\* enumerates each set in an order the interpreter's string hashing picks
EmitNodes ==
    /\ pc = "nodes"
    /\ \E orders \in ModeOrders(grouped_nodes) :
           nodes_list' = NodesList(grouped_nodes, orders)
    /\ node_name_to_id' = NodeNameToId(grouped_nodes)
    /\ orig_to_new_id' = OrigToNewId(G.nodes, coord_map, id_to_name_map,
                                     node_name_to_id')
    /\ pc' = "edges"
    /\ UNCHANGED <<service_ids_by_date, zip_stop_times, services, start_hour,
                   end_hour, stop_times, st, st_active, search_start, search_end,
                   is_deep_night, name_to_lines, id_to_name_map, coord_map, G,
                   grouped_nodes, edges_list, artifact, first_artifact>>
    /\ UNCHANGED <<erreur_graphe, otherVars>>

\* lines 237-242
EmitEdges ==
    /\ pc = "edges"
    /\ edges_list' = EdgesLoop(<< >>, G.edges, orig_to_new_id)
    /\ pc' = "write"
    /\ UNCHANGED <<service_ids_by_date, zip_stop_times, services, start_hour,
                   end_hour, stop_times, st, st_active, search_start, search_end,
                   is_deep_night, name_to_lines, id_to_name_map, coord_map, G,
                   grouped_nodes, nodes_list, node_name_to_id, orig_to_new_id,
                   artifact, first_artifact>>
    /\ UNCHANGED <<erreur_graphe, otherVars>>

\* lines 244-247
WriteArtifact ==
    /\ pc = "write"
    /\ artifact' = <<[nodes |-> nodes_list, edges |-> edges_list]>>
    /\ pc' = "done"
    /\ UNCHANGED <<service_ids_by_date, zip_stop_times, services, start_hour,
                   end_hour, stop_times, st, st_active, search_start, search_end,
                   is_deep_night, name_to_lines, id_to_name_map, coord_map, G,
                   grouped_nodes, nodes_list, node_name_to_id, orig_to_new_id,
                   edges_list, first_artifact>>
    /\ UNCHANGED <<erreur_graphe, otherVars>>

\* the compiler is run a second time on the same feed, date and window; the
\* feed tables and the builder's graph are those of the first compilation
Recompile ==
    /\ pc = "done"
    /\ artifact # NoFile
    /\ first_artifact = NoFile
    /\ first_artifact' = artifact
    /\ artifact' = NoFile
    /\ grouped_nodes' = << >>
    /\ nodes_list' = << >>
    /\ node_name_to_id' = EmptyDict
    /\ orig_to_new_id' = EmptyDict
    /\ edges_list' = << >>
    /\ pc' = "group"
    /\ UNCHANGED <<service_ids_by_date, zip_stop_times, services, start_hour,
                   end_hour, stop_times, st, st_active, search_start, search_end,
                   is_deep_night, name_to_lines, id_to_name_map, coord_map, G>>
    /\ UNCHANGED <<erreur_graphe, otherVars>>

\* the export half of generate_graph, from the mapping stage on
Next ==
    \/ BuildMaps
    \/ BuilderReturns
    \/ BuilderRaises
    \/ GroupNodes
    \/ EmitNodes
    \/ EmitEdges
    \/ WriteArtifact

Spec == Init /\ [][Next]_vars

\* two compilations of the same input
NextTwice == Next \/ Recompile

SpecTwice == Init /\ [][NextTwice]_vars

\* the filtering half of generate_graph, up to the mapping stage
NextWindow ==
    \/ LoadFeed
    \/ FilterWindow
    \/ WriteEmpty
    \/ DeepNight

SpecWindow == InitWindow /\ [][NextWindow]_vars

\* archives of night service and the windows compiled end to end
NightRows == {
    Row("tA", <<"7">>, T0200, <<"0">>),
    Row("tA", <<"8">>, T0400, <<"0">>),
    Row("tC", <<"7">>, T0200, <<"0">>),
    Row("tC", <<"8">>, T0400, <<"0">>) }

NightWindows == {<<1, 4>>, <<5, 6>>}

InitPipeline ==
    /\ InitWindow
    /\ <<start_hour, end_hour>> \in NightWindows
    /\ zip_stop_times \subseteq NightRows

\* the whole of generate_graph
NextPipeline == NextWindow \/ Next

SpecPipeline == InitPipeline /\ [][NextPipeline]_vars

\* ------------------------------------------- main and the optional arguments
\* datetime.datetime.strptime(s, "%Y-%m-%d") returns a date (the length of
\* the month is not modelled)
IsIsoDate(s) ==
    LET parts == Split(s, "-")
    IN  /\ Len(parts) = 3
        /\ \A i \in 1..3 : IsDigits(parts[i])
        /\ Len(parts[1]) = 4
        /\ Len(parts[2]) \in 1..2 /\ DigitsVal(parts[2]) \in 1..12
        /\ Len(parts[3]) \in 1..2 /\ DigitsVal(parts[3]) \in 1..31

\* --date: not given, an ISO date, or a str that is no date
DateInputs == {NoArg, <<DateISO>>, <<Tabc>>}

\* --lines: not given, or the allow-list "A"
LinesInputs == {NoArg, << <<"A">> >>}

\* main() has parsed the command line (lines 251-261)
InitMain ==
    /\ pc = "args"
    /\ \E w \in Windows : start_hour = w[1] /\ end_hour = w[2]
    /\ service_ids_by_date \in Calendars
    /\ zip_stop_times \in {rs \in SUBSET RowUniverse : Cardinality(rs) <= MaxRows}
    /\ services = {}
    /\ stop_times = {}
    /\ st = {}
    /\ st_active = {}
    /\ search_start = 0
    /\ search_end = 0
    /\ is_deep_night = FALSE
    /\ MapsBlank
    /\ LocalsBlank
    /\ date_str \in DateInputs
    /\ target_lines \in LinesInputs
    /\ erreur_graphe = FALSE
    /\ BatchIdle
    /\ ColorsIdle
    /\ DbIdle

\* line 64 with the handler of lines 79-81: strptime raises TypeError on
\* None, which no handler catches, and ValueError on a str that is no date
ParseDate ==
    /\ pc = "args"
    /\ pc' = IF date_str = NoArg THEN "raised"
             ELSE IF IsIsoDate(date_str[1]) THEN "load"
             ELSE "done"
    /\ UNCHANGED <<service_ids_by_date, zip_stop_times, services, start_hour,
                   end_hour, stop_times, st, st_active, search_start, search_end,
                   is_deep_night, name_to_lines, id_to_name_map, coord_map, G,
                   grouped_nodes, nodes_list, node_name_to_id, orig_to_new_id,
                   edges_list, artifact, first_artifact>>
    /\ UNCHANGED <<erreur_graphe, otherVars>>

\* main() calling generate_graph, up to the mapping stage
NextMain == ParseDate \/ NextWindow

SpecMain == InitMain /\ [][NextMain]_vars

\* ------------------------------ the full-day batch driver (generate_full_day)
START_HOUR_OF_DAY == 0

END_HOUR_OF_DAY == 24

STEP_HOURS == 1

\* f"{n:02d}"
Pad2(n) == IF n < 10 THEN <<"0">> \o IntToStr(n) ELSE IntToStr(n)

\* format_time_filename for a whole hour: m = int(round(0 * 60))
format_time_filename(hour_float) == Pad2(hour_float) \o Pad2(0)

\* the options of the command line of lines 60-67; --date and --lines are
\* not passed
Cmd(hour) ==
    [out    |-> <<"n", "e", "t", "w", "o", "r", "k", "_">>
                \o format_time_filename(hour),
     start  |-> IntToStr(hour),
     end    |-> IntToStr(hour + STEP_HOURS),
     lines  |-> NoArg,
     date   |-> NoArg]

\* result.returncode of a build_graph.py run: generate_graph gets
\* date_str = args.date, and the TypeError of line 64 on None ends the
\* interpreter with status 1
WorkerReturnCode(cmd) == IF cmd.date = NoArg THEN 1 ELSE 0

\* no generate_graph call is running in this process
GraphIdle ==
    /\ pc = "idle"
    /\ start_hour = 0
    /\ end_hour = 0
    /\ service_ids_by_date = [d \in {Today, Yesterday} |-> {}]
    /\ zip_stop_times = {}
    /\ services = {}
    /\ stop_times = {}
    /\ st = {}
    /\ st_active = {}
    /\ search_start = 0
    /\ search_end = 0
    /\ is_deep_night = FALSE
    /\ MapsBlank
    /\ LocalsBlank
    /\ date_str = NoArg
    /\ target_lines = NoArg
    /\ erreur_graphe = FALSE

\* generate_full_day.main is entered
InitBatch ==
    /\ batch_pc = "start"
    /\ gtfs_found \in BOOLEAN
    /\ worker_found \in BOOLEAN
    /\ next_slot = START_HOUR_OF_DAY
    /\ launched = << >>
    /\ reported = << >>
    /\ GraphIdle
    /\ ColorsIdle
    /\ DbIdle

\* lines 25-42: the two early returns; a failing makedirs is only printed
BatchPrechecks ==
    /\ batch_pc = "start"
    /\ batch_pc' = IF gtfs_found /\ worker_found THEN "loop" ELSE "done"
    /\ UNCHANGED <<gtfs_found, worker_found, next_slot, launched, reported>>
    /\ UNCHANGED <<graphVars, colorVars, dbVars>>

\* the launches that failed with an exception so far
LaunchErrors == {i \in DOMAIN reported : reported[i].kind = "EXCEPTION"}

\* mutant of BatchWindow: an exception of subprocess.run ends the loop
BatchWindowAborts ==
    /\ batch_pc = "loop"
    /\ next_slot < END_HOUR_OF_DAY
    /\ launched' = Append(launched, Cmd(next_slot))
    /\ \E raises \in BOOLEAN :
           /\ raises => Cardinality(LaunchErrors) < MaxLaunchErrors
           /\ reported' =
                  IF raises
                  THEN Append(reported, [out |-> Cmd(next_slot).out,
                                         kind |-> "EXCEPTION", code |-> 0])
                  ELSE IF WorkerReturnCode(Cmd(next_slot)) # 0
                  THEN Append(reported, [out |-> Cmd(next_slot).out,
                                         kind |-> "ERREUR",
                                         code |-> WorkerReturnCode(Cmd(next_slot))])
                  ELSE reported
           /\ batch_pc' = IF raises THEN "done" ELSE batch_pc
    /\ next_slot' = next_slot + STEP_HOURS
    /\ UNCHANGED <<gtfs_found, worker_found>>
    /\ UNCHANGED <<graphVars, colorVars, dbVars>>

\* one turn of the loop of lines 50-75: the worker is launched for the
\* window; subprocess.run returns its exit status or raises
BatchWindow ==
    /\ batch_pc = "loop"
    /\ next_slot < END_HOUR_OF_DAY
    /\ launched' = Append(launched, Cmd(next_slot))
    /\ \E raises \in BOOLEAN :
           /\ raises => Cardinality(LaunchErrors) < MaxLaunchErrors
           /\ reported' =
                  IF raises
                  THEN Append(reported, [out |-> Cmd(next_slot).out,
                                         kind |-> "EXCEPTION", code |-> 0])
                  ELSE IF WorkerReturnCode(Cmd(next_slot)) # 0
                  THEN Append(reported, [out |-> Cmd(next_slot).out,
                                         kind |-> "ERREUR",
                                         code |-> WorkerReturnCode(Cmd(next_slot))])
                  ELSE reported
    /\ next_slot' = next_slot + STEP_HOURS
    /\ UNCHANGED <<batch_pc, gtfs_found, worker_found>>
    /\ UNCHANGED <<graphVars, colorVars, dbVars>>

\* line 77: time_slots is exhausted
BatchFinish ==
    /\ batch_pc = "loop"
    /\ next_slot >= END_HOUR_OF_DAY
    /\ batch_pc' = "done"
    /\ UNCHANGED <<gtfs_found, worker_found, next_slot, launched, reported>>
    /\ UNCHANGED <<graphVars, colorVars, dbVars>>

NextBatch == BatchPrechecks \/ BatchWindow \/ BatchFinish

\* subprocess.run blocks until the worker has ended, and every worker ends
SpecBatch == InitBatch /\ [][NextBatch]_vars /\ WF_vars(NextBatch)

\* ------------------------------------- route colours (find_route.py 10-28)
COLORS == <<"#E74C3C", "#3498DB", "#F1C40F", "#2ECC71", "#9B59B6", "#E67E22",
            "#1ABC9C">>

\* edge_data.get('route_id', 'walk_transfer')
WalkTransfer == <<"w", "a", "l", "k", "_", "t", "r", "a", "n", "s", "f", "e", "r">>

\* the i-th route id the segments of a path show, in the order of first use
RouteId(i) == <<"r">> \o IntToStr(i)

\* the route ids of the path that are keys of color_map
RoutesSeen == {i \in 1..MaxRoutes : RouteId(i) \in DOMAIN color_map}

\* the route ids a segment of the path can carry
SegmentRoutes ==
    {RouteId(i) : i \in RoutesSeen} \cup {WalkTransfer}
    \cup (IF Cardinality(RoutesSeen) < MaxRoutes
          THEN {RouteId(Cardinality(RoutesSeen) + 1)} ELSE {})

\* no route search is running in this process
InitColor ==
    /\ ColorsIdle
    /\ GraphIdle
    /\ BatchIdle
    /\ DbIdle

\* get_route_color(route_id, mode), called for a segment (line 124)
GetRouteColor ==
    /\ \E mode \in {"transit", "transfer"} : \E route_id \in SegmentRoutes :
           IF mode = "transfer"
           THEN /\ returned' = <<[route_id |-> route_id, mode |-> mode,
                                  color |-> "#95a5a6", dash_array |-> <<"dash">>]>>
                /\ UNCHANGED <<color_map, color_idx>>
           ELSE IF route_id \in DOMAIN color_map
           THEN /\ returned' = <<[route_id |-> route_id, mode |-> mode,
                                  color |-> color_map[route_id],
                                  dash_array |-> NoArg]>>
                /\ UNCHANGED <<color_map, color_idx>>
           ELSE LET color == COLORS[(color_idx % Len(COLORS)) + 1]
                IN  /\ color_map' = [r \in DOMAIN color_map \cup {route_id} |->
                                        IF r = route_id THEN color ELSE color_map[r]]
                    /\ color_idx' = color_idx + 1
                    /\ returned' = <<[route_id |-> route_id, mode |-> mode,
                                      color |-> color, dash_array |-> NoArg]>>
    /\ UNCHANGED <<graphVars, batchVars, dbVars>>

\* lines 55-57: find_shortest_path starts another route search
ResetColors ==
    /\ color_idx > 0
    /\ color_map' = EmptyDict
    /\ color_idx' = 0
    /\ returned' = << >>
    /\ UNCHANGED <<graphVars, batchVars, dbVars>>

NextColor == GetRouteColor \/ ResetColors

SpecColor == InitColor /\ [][NextColor]_vars

\* ------------------------------------ the schedule database (sqlize_gtfs.py)
\* c.upper() for the letters of Chars
UpperChar(c) ==
    CASE c = "a" -> "A" [] c = "b" -> "B" [] c = "c" -> "C" [] c = "k" -> "K"
      [] c = "n" -> "N" [] c = "o" -> "O" [] c = "w" -> "W" [] OTHER -> c

\* line.upper()
Upper(line) == [i \in DOMAIN line |-> UpperChar(line[i])]

\* s.startswith(prefix)
StartsWith(str, prefix) ==
    Len(str) >= Len(prefix) /\ SubSeq(str, 1, Len(prefix)) = prefix

\* int(line_u[1:]) if line_u[1:].isdigit() else 99
NumberAfterLetter(line_u) ==
    IF IsDigits(Tail(line_u)) THEN DigitsVal(Tail(line_u)) ELSE 99

\* sort_lines_key (lines 105-113): the pair (class, value)
sort_lines_key(line) ==
    LET line_u == Upper(line)
    IN  IF line_u \in {<<"A">>, <<"B">>, <<"C">>, <<"D">>} THEN <<0, line_u>>
        ELSE IF StartsWith(line_u, <<"F">>) THEN <<1, line_u>>
        ELSE IF StartsWith(line_u, <<"N", "A", "V">>) THEN <<2, line_u>>
        ELSE IF StartsWith(line_u, <<"T">>) /\ ~StartsWith(line_u, <<"T", "B">>)
             THEN <<3, NumberAfterLetter(line_u)>>
        ELSE IF StartsWith(line_u, <<"C">>) THEN <<4, NumberAfterLetter(line_u)>>
        ELSE IF IsDigits(line_u) THEN <<5, DigitsVal(line_u)>>
        ELSE <<6, line_u>>

\* k1 < k2 for two keys: tuples compare by class, then by value (an int in
\* the classes 3, 4 and 5, a str in the others)
KeyLess(k1, k2) ==
    \/ k1[1] < k2[1]
    \/ /\ k1[1] = k2[1]
       /\ IF k1[1] \in {3, 4, 5} THEN k1[2] < k2[2] ELSE StrLess(k1[2], k2[2])

\* sorted(x, key=sort_lines_key): stable, an element goes after those of
\* the same key that precede it
RECURSIVE SortedLines(_)
SortedLines(x) ==
    IF x = << >> THEN << >>
    ELSE LET front == SortedLines(SubSeq(x, 1, Len(x) - 1))
             last  == x[Len(x)]
             n     == Cardinality({i \in DOMAIN front :
                          ~KeyLess(sort_lines_key(last), sort_lines_key(front[i]))})
         IN  SubSeq(front, 1, n) \o <<last>> \o SubSeq(front, n + 1, Len(front))

\* ",".join(lines)
RECURSIVE Join(_)
Join(lines) ==
    IF lines = << >> THEN << >>
    ELSE IF Len(lines) = 1 THEN lines[1]
    ELSE lines[1] \o <<",">> \o Join(Tail(lines))

\* needle in hay, for two str values
Contains(hay, needle) ==
    \E i \in 1..(Len(hay) - Len(needle) + 1) :
        SubSeq(hay, i, i + Len(needle) - 1) = needle

NAVI1 == <<"N", "A", "V", "I", "1">>

navi_stops == <<"VAISE - INDUSTRIE", "SUBSISTANCES", "TERRASSES PRESQU'ÎLE",
                "CONFLUENCE">>

\* body of the loop of lines 286-296 for one stop_name
InjectStop(table, stop_name) ==
    IF stop_name \in DOMAIN table
    THEN LET current_desserte == table[stop_name].desserte
         IN  IF ~Contains(current_desserte, NAVI1)
             THEN [table EXCEPT ![stop_name].desserte =
                       IF current_desserte # << >>
                       THEN NAVI1 \o <<",">> \o current_desserte
                       ELSE NAVI1]
             ELSE table
    ELSE [n \in DOMAIN table \cup {stop_name} |->
             IF n = stop_name THEN [desserte |-> NAVI1, pmr |-> 0] ELSE table[n]]

RECURSIVE InjectLoop(_, _)
InjectLoop(table, stops) ==
    IF stops = << >> THEN table
    ELSE InjectLoop(InjectStop(table, Head(stops)), Tail(stops))

\* route short names of the feed
LineUniverse == {<<"A">>, <<"T", "1">>, NAVI1, <<"C", "2">>}

\* final_df.groupby('station_name')['route_name'].unique() of one station:
\* its lines without repetition, in the order of their first row
LineSeqs ==
    {q \in UNION {[1..n -> LineUniverse] : n \in 1..MaxLines} :
        \A i, j \in DOMAIN q : i # j => q[i] # q[j]}

\* station names of the feed
FeedStations == {"VAISE - INDUSTRIE", "CONFLUENCE", "Bellecour"}

\* process_gtfs_schedules has built final_df (lines 10-87)
InitDb ==
    /\ db_pc = "arrets"
    /\ route_names \in UNION {[S -> LineSeqs] : S \in SUBSET FeedStations}
    /\ arrets = EmptyDict
    /\ GraphIdle
    /\ BatchIdle
    /\ ColorsIdle

\* lines 115-128: the table arrets
BuildArrets ==
    /\ db_pc = "arrets"
    /\ arrets' = [n \in DOMAIN route_names |->
                     [desserte |-> Join(SortedLines(route_names[n])), pmr |-> 0]]
    /\ db_pc' = "inject"
    /\ UNCHANGED route_names
    /\ UNCHANGED <<graphVars, batchVars, colorVars>>

\* inject_hardcoded_navigone_schedules, lines 284-296, called at line 201
InjectNavi ==
    /\ db_pc = "inject"
    /\ arrets' = InjectLoop(arrets, navi_stops)
    /\ db_pc' = "done"
    /\ UNCHANGED route_names
    /\ UNCHANGED <<graphVars, batchVars, colorVars>>

NextDb == BuildArrets \/ InjectNavi

SpecDb == InitDb /\ [][NextDb]_vars

\* ------------------------------------------------------------ properties
\* the station name a raw node resolves to
StationOf(n) == CleanName(get_stop_name_spatial(n, coord_map, id_to_name_map, n.id))

\* the graph artifact of a finished compilation that reached the export
Exported == pc = "done" /\ artifact # NoFile /\ id_to_name_map # EmptyDict

\* raw edges of G whose endpoints remap to the ordered pair (a, b)
RawEdgesTo(a, b) ==
    {i \in DOMAIN G.edges :
        /\ G.edges[i].u \in DOMAIN orig_to_new_id
        /\ G.edges[i].v \in DOMAIN orig_to_new_id
        /\ orig_to_new_id[G.edges[i].u] = a
        /\ orig_to_new_id[G.edges[i].v] = b}

\* C1: no edge of a written artifact has equal endpoints.
C1_NoSelfLoop ==
    \A k \in DOMAIN artifact : \A i \in DOMAIN artifact[k].edges :
        artifact[k].edges[i][1] # artifact[k].edges[i][2]

\* C1 witness: an artifact with an edge was written from a raw graph holding
\* an edge between two platforms that merged into one station.
C1_Witness ==
    /\ Exported
    /\ artifact[1].edges # << >>
    /\ \E i \in DOMAIN G.edges :
           /\ G.edges[i].u # G.edges[i].v
           /\ orig_to_new_id[G.edges[i].u] = orig_to_new_id[G.edges[i].v]

\* C2: the emitted edge list holds at most one edge per ordered pair (u, v).
C2_OneEdgePerPair ==
    \A k \in DOMAIN artifact : \A i, j \in DOMAIN artifact[k].edges :
        i # j => <<artifact[k].edges[i][1], artifact[k].edges[i][2]>>
                   # <<artifact[k].edges[j][1], artifact[k].edges[j][2]>>

\* C3: every emitted edge (u, v, w) carries the minimum, in whole seconds, of
\* the lengths of the raw edges that remap to (u, v).
C3_WeightIsMin ==
    Exported =>
        \A i \in DOMAIN artifact[1].edges :
            LET e == artifact[1].edges[i]
            IN  /\ \E r \in RawEdgesTo(e[1], e[2]) : e[3] = IntSeconds(G.edges[r].length)
                /\ \A r \in RawEdgesTo(e[1], e[2]) : e[3] <= IntSeconds(G.edges[r].length)

\* C4: a second compilation of the same input writes the same artifact, the
\* order of nodes, modes and edges included.
C4_Deterministic ==
    (pc = "done" /\ first_artifact # NoFile /\ artifact # NoFile)
        => artifact = first_artifact

\* set of the elements of a list
Range(l) == {l[i] : i \in DOMAIN l}

\* C5: the modes of an emitted station are the union of the name_to_lines
\* lookup of its name and of the raw mode attributes of the raw nodes merged
\* into it.
C5_ModesAreUnion ==
    Exported =>
        \A i \in DOMAIN artifact[1].nodes :
            LET node == artifact[1].nodes[i]
            IN  Range(node.modes) =
                    ValidModes(DictGet(name_to_lines, node.name, {}))
                    \cup UNION {n.modes : n \in {m \in G.nodes : StationOf(m) = node.name}}

\* C6: the node at list position i (from 0) has the decimal string of i as
\* id, so the ids are exactly 0..N-1.
C6_ContiguousIds ==
    \A k \in DOMAIN artifact : \A i \in DOMAIN artifact[k].nodes :
        /\ IsDigits(artifact[k].nodes[i].id)
        /\ DigitsVal(artifact[k].nodes[i].id) = i - 1
        /\ artifact[k].nodes[i].id = IntToStr(i - 1)

\* C6 witness: an artifact with three stations was written.
C6_Witness == Exported /\ Len(artifact[1].nodes) = 3

\* the id of the first raw node, in the order of the string form of the ids,
\* that resolves to a station name
FirstRawId(name) ==
    LET ids == {n.id : n \in {m \in G.nodes : StationOf(m) = name}}
    IN  CHOOSE a \in ids : \A b \in ids \ {a} : StrLess(a, b)

\* C7: a station whose first raw node comes earlier in the order of the
\* string form of the raw ids has the smaller canonical id.
C7_FirstAppearanceOrder ==
    Exported =>
        \A i, j \in DOMAIN artifact[1].nodes :
            StrLess(FirstRawId(artifact[1].nodes[i].name),
                    FirstRawId(artifact[1].nodes[j].name))
                => DigitsVal(artifact[1].nodes[i].id) < DigitsVal(artifact[1].nodes[j].id)

\* C7 witness: raw nodes "10" and "7" were compiled; the string order puts
\* the station of "10" first although 7 < 10.
C7_Witness ==
    /\ Exported
    /\ \E a, b \in G.nodes :
           /\ a.id = <<"1", "0">>
           /\ b.id = <<"7">>
           /\ orig_to_new_id[a.id] < orig_to_new_id[b.id]

\* C8: raw nodes resolving to the same cleaned station name share one
\* canonical stop, no two emitted nodes share a name, and every raw node has
\* exactly one canonical id, that of the stop carrying its name.
C8_OneStopPerName ==
    Exported =>
        /\ \A i, j \in DOMAIN artifact[1].nodes :
               artifact[1].nodes[i].name = artifact[1].nodes[j].name => i = j
        /\ {artifact[1].nodes[i].name : i \in DOMAIN artifact[1].nodes}
               = {StationOf(n) : n \in G.nodes}
        /\ \A n \in G.nodes :
               /\ n.id \in DOMAIN orig_to_new_id
               /\ orig_to_new_id[n.id] + 1 \in DOMAIN artifact[1].nodes
               /\ artifact[1].nodes[orig_to_new_id[n.id] + 1].name = StationOf(n)
        /\ \A n, m \in G.nodes :
               StationOf(n) = StationOf(m) => orig_to_new_id[n.id] = orig_to_new_id[m.id]

\* C8 witness: two platforms whose stop names differ only by quote characters
\* and surrounding whitespace were compiled into one stop.
C8_Witness ==
    /\ Exported
    /\ \E n, m \in G.nodes :
           /\ n.id # m.id
           /\ get_stop_name_spatial(n, coord_map, id_to_name_map, n.id)
                # get_stop_name_spatial(m, coord_map, id_to_name_map, m.id)
           /\ orig_to_new_id[n.id] = orig_to_new_id[m.id]

\* the window filter of lines 93-105 has run
Windowed == pc \in {"emptiness", "maps"} \/ (pc = "done" /\ services # {})

\* C9: the selected window is half-open: no selected stop-time arrives at
\* search_end, and a window with start = end selects nothing and ends in the
\* empty artifact.
C9_HalfOpenWindow ==
    Windowed =>
        /\ \A r \in st_active : search_start <= Seconds(r) /\ Seconds(r) < search_end
        /\ start_hour = end_hour => st_active = {}
        /\ (start_hour = end_hour /\ pc = "done")
               => artifact = <<[nodes |-> << >>, edges |-> << >>]>>

\* C10: the metro removal is applied exactly for the windows lying inside
\* 1:00-4:00, that is 1 <= start_hour and end_hour <= 4.
C10_DeepNightIffInside ==
    pc = "maps" => (is_deep_night <=> (1 <= start_hour /\ end_hour <= 4))

\* a stop-time of a trip on a metro-typed route (route_type 1)
IsMetroRow(r) ==
    /\ r.trip_id \in DOMAIN feed_trips
    /\ feed_trips[r.trip_id].route_id \in DOMAIN feed_routes
    /\ feed_routes[feed_trips[r.trip_id].route_id].route_type = 1

\* the stop-times of the selected window, before the metro removal
SelectedRows == Mask(st, search_start, search_end)

\* the stop-times are those handed to the graph builder
Filtered == pc \notin {"load", "filter", "emptiness"}

\* C11: for a window inside 1:00-4:00 no stop-time handed to the graph
\* builder is of a metro-typed trip, and of every trip either all selected
\* stop-times are handed over or none.
C11_NoMetroInDeepNight ==
    (Filtered /\ 1 <= start_hour /\ end_hour <= 4) =>
        /\ \A r \in st_active : ~IsMetroRow(r)
        /\ \A t \in DOMAIN feed_trips :
               LET rows == {r \in SelectedRows : r.trip_id = t}
               IN  rows \subseteq st_active \/ rows \cap st_active = {}

\* C11 witness: in the window 1-4 a metro stop-time was selected and removed
\* while another stop-time is handed to the builder.
C11_Witness ==
    /\ pc = "maps"
    /\ 1 <= start_hour /\ end_hour <= 4
    /\ \E r \in SelectedRows : IsMetroRow(r)
    /\ st_active # {}

EmptyArtifact == <<[nodes |-> << >>, edges |-> << >>]>>

\* C12: a compilation whose stop-time table is empty after all filtering
\* ends normally with the empty graph artifact written.
C12_EmptyTableEmptyArtifact ==
    (pc = "done" /\ services # {} /\ st_active = {}) => artifact = EmptyArtifact

\* C12 witness: the deep-night metro removal emptied the table and the
\* compilation finished with an artifact.
C12_Witness ==
    /\ pc = "done"
    /\ is_deep_night
    /\ SelectedRows # {}
    /\ st_active = {}
    /\ artifact # NoFile

\* C13: the resolved services are those of the target date, joined with
\* those of the previous date exactly when start_hour < 5.
C13_ServiceSet ==
    pc # "load" =>
        services = service_ids_by_date[Today]
                   \cup (IF start_hour < 5 THEN service_ids_by_date[Yesterday] ELSE {})

\* C13 witness: a window starting at 4 resolved a service of the previous
\* date only.
C13_Witness ==
    /\ pc # "load"
    /\ start_hour = 4
    /\ \E s \in services : s \notin service_ids_by_date[Today]

\* C14: with no service resolved the compilation ends in an error the
\* caller can observe, and writes no artifact.
C14_NoServiceIsError ==
    (pc # "load" /\ services = {}) => (pc = "raised" /\ artifact = NoFile)

\* rows of st matching the standard and the extended window
StdCount == Cardinality(Mask(st, SecOfHour(start_hour), SecOfHour(end_hour)))

ExtCount ==
    Cardinality(Mask(st, SecOfHour(start_hour) + DaySeconds,
                     SecOfHour(end_hour) + DaySeconds))

\* C15: the extended window is selected exactly when it matches strictly more
\* rows than the standard one; the search bounds and the selected stop-times
\* are those of the selected window.
C15_ExtendedOnlyIfMore ==
    Windowed =>
        /\ IF ExtCount > StdCount
           THEN /\ search_start = SecOfHour(start_hour) + DaySeconds
                /\ search_end = SecOfHour(end_hour) + DaySeconds
           ELSE /\ search_start = SecOfHour(start_hour)
                /\ search_end = SecOfHour(end_hour)
        /\ pc = "emptiness" => st_active = SelectedRows

\* C15 witness: both windows matched the same, non-zero number of rows and
\* the standard window was selected.
C15_Witness ==
    /\ pc = "emptiness"
    /\ StdCount > 0
    /\ ExtCount = StdCount
    /\ search_start = SecOfHour(start_hour)

\* C16: no stop-time with pickup type 1 is left in st, and every loaded
\* stop-time with another, a missing or an unparseable pickup type is.
C16_PickupFilter ==
    Windowed =>
        /\ \A r \in st : r.pickup_type # <<"1">>
        /\ \A r \in stop_times : r.pickup_type # <<"1">> => r \in st

\* C16 witness: a stop-time with pickup type 1 was loaded and a stop-time
\* with a missing or unparseable pickup type was kept.
C16_Witness ==
    /\ Windowed
    /\ \E r \in stop_times : r.pickup_type = <<"1">>
    /\ \E r \in st : r.pickup_type \notin {<<"0">>, <<"1">>}

\* the name emitted for the raw node n
EmittedName(n) == artifact[1].nodes[orig_to_new_id[n.id] + 1].name

\* the keys a composite id is tried with: the id without its last
\* "_"-delimited suffix, then each "_"-delimited component
CompositeCandidates(cid) ==
    LET k == CHOOSE i \in DOMAIN cid :
                 cid[i] = "_" /\ \A j \in (i + 1)..Len(cid) : cid[j] # "_"
    IN  <<SubSeq(cid, 1, k - 1)>> \o Split(cid, "_")

\* the candidates of cid that are keys of id_to_name_map, as indexes
CompositeHits(cid) ==
    IF \A i \in DOMAIN cid : cid[i] # "_" THEN {}
    ELSE {i \in DOMAIN CompositeCandidates(cid) :
              CompositeCandidates(cid)[i] \in DOMAIN id_to_name_map}

\* C17: a raw node whose id is no key of id_map but has a composite candidate
\* that is one is emitted under the name of the first such candidate.
C17_CompositeIdResolved ==
    Exported =>
        \A n \in G.nodes :
            LET cid  == clean_val(n.id)
                hits == CompositeHits(cid)
            IN  (cid \notin DOMAIN id_to_name_map /\ hits # {}) =>
                    /\ n.id \in DOMAIN orig_to_new_id
                    /\ EmittedName(n) =
                         CleanName(id_to_name_map[
                             CompositeCandidates(cid)[
                                 CHOOSE i \in hits : \A j \in hits : i <= j]])

\* every resolution strategy fails for the raw node n
Unresolved(n) ==
    /\ clean_val(n.id) \notin DOMAIN id_to_name_map
    /\ CompositeHits(clean_val(n.id)) = {}
    /\ <<Round4(n.x), Round4(n.y)>> \notin DOMAIN coord_map

\* C18: an unresolved raw node has no entry in orig_to_new_id, no emitted
\* stop carries its sentinel as a name, and the emitted edges are at most the
\* raw edges between resolved nodes.
C18_UnresolvedDropped ==
    Exported =>
        /\ \A n \in G.nodes : Unresolved(n) => n.id \notin DOMAIN orig_to_new_id
        /\ \A i \in DOMAIN artifact[1].nodes : artifact[1].nodes[i].name # Unknown
        /\ Len(artifact[1].edges)
             <= Cardinality({i \in DOMAIN G.edges :
                    \A n \in G.nodes :
                        Unresolved(n) => n.id \notin {G.edges[i].u, G.edges[i].v}})

\* the station name of a stop id with its parent station folded in
FoldedName(sid) ==
    LET rows   == {i \in DOMAIN feed_stops : clean_val(feed_stops[i].stop_id) = sid}
        row    == feed_stops[CHOOSE i \in rows : \A j \in rows : j <= i]
        parent == clean_val(row.parent_station)
    IN  IF rows = {} THEN Unknown
        ELSE IF row.parent_station # << >> /\ parent \in DOMAIN id_to_name_map
             THEN CleanName(id_to_name_map[parent])
             ELSE CleanName(row.stop_name)

\* the line names of the filtered stop-times at the stops folded into name
FoldedLines(name) ==
    ValidModes({m.line_name :
                m \in {mm \in Merged(st_active) : FoldedName(mm.clean_stop_id) = name}})

\* C19: name_to_lines maps every station name to the lines of the filtered
\* stop-times at the stop ids of that station, a stop id with a parent
\* station counting for its parent's name.
C19_ParentFolding ==
    id_to_name_map # EmptyDict =>
        \A name \in DOMAIN name_to_lines
                    \cup {FoldedName(m.clean_stop_id) : m \in Merged(st_active)} :
            ValidModes(DictGet(name_to_lines, name, {})) = FoldedLines(name)

\* C20: every emitted weight is a whole number of seconds >= 0 that is the
\* length of a raw edge of its pair cut to whole seconds, and every raw edge
\* between two different stations is emitted with such a weight.
C20_WeightTruncated ==
    Exported =>
        /\ \A i \in DOMAIN artifact[1].edges :
               LET e == artifact[1].edges[i]
               IN  /\ e[3] \in Nat
                   /\ \E r \in RawEdgesTo(e[1], e[2]) :
                          10 * e[3] <= G.edges[r].length
                          /\ G.edges[r].length < 10 * e[3] + 10
        /\ \A r \in DOMAIN G.edges :
               LET u == orig_to_new_id[G.edges[r].u]
                   v == orig_to_new_id[G.edges[r].v]
               IN  u # v =>
                       \E i \in DOMAIN artifact[1].edges :
                           /\ artifact[1].edges[i][1] = u
                           /\ artifact[1].edges[i][2] = v
                           /\ 10 * artifact[1].edges[i][3] <= G.edges[r].length
                           /\ G.edges[r].length < 10 * artifact[1].edges[i][3] + 10

\* C20 witness: a raw edge of 280.9 s was emitted with the weight 280.
C20_Witness ==
    /\ Exported
    /\ \E r \in DOMAIN G.edges : G.edges[r].length = 2809
    /\ \E i \in DOMAIN artifact[1].edges : artifact[1].edges[i][3] = 280

\* C21: every written artifact, the empty one included, has a metadata block
\* with the numbers of emitted nodes and edges and the requested hour range.
C21_MetadataBlock ==
    \A k \in DOMAIN artifact :
        /\ "metadata" \in DOMAIN artifact[k]
        /\ artifact[k].metadata.node_count = Len(artifact[k].nodes)
        /\ artifact[k].metadata.edge_count = Len(artifact[k].edges)
        /\ artifact[k].metadata.period = <<start_hour, end_hour>>

\* C22: after the feed-graph builder raised, the raw graph is the empty one,
\* the exception has not left generate_graph, and a finished compilation has
\* written the artifact with empty nodes and edges.
C22_BuilderFailureIsolated ==
    erreur_graphe =>
        /\ G = EmptyGraph
        /\ pc # "raised"
        /\ pc = "done" => artifact = EmptyArtifact

\* C22 witness: the builder raised on a non-empty stop-time table and the
\* compilation finished with the empty artifact.
C22_Witness ==
    /\ pc = "done"
    /\ erreur_graphe
    /\ st_active # {}
    /\ artifact = EmptyArtifact

\* val has the form H:MM:SS the parser of lines 36-42 accepts
ParsesAsTime(val) ==
    LET parts == Split(Strip(val), ":")
    IN  /\ Len(parts) >= 3
        /\ IsDigits(parts[1])
        /\ IsDigits(parts[2])
        /\ IsDigits(Split(parts[3], ".")[1])

\* C23: a stop-time whose arrival_time does not parse is in neither window
\* and is not selected, whatever the window; the stop-times that parse are
\* selected exactly when they lie in the selected window.
C23_MalformedTimeExcluded ==
    Windowed =>
        /\ \A r \in {x \in st : ~ParsesAsTime(x.arrival_time)} :
               /\ r \notin st_active
               /\ r \notin Mask(st, SecOfHour(start_hour), SecOfHour(end_hour))
               /\ r \notin Mask(st, SecOfHour(start_hour) + DaySeconds,
                                SecOfHour(end_hour) + DaySeconds)
        /\ pc = "emptiness" =>
               \A r \in {x \in st : ParsesAsTime(x.arrival_time)} :
                   r \in st_active <=> r \in SelectedRows

\* C23 witness: a stop-time with an unparseable arrival_time was loaded and
\* left out while another stop-time was selected.
C23_Witness ==
    /\ pc = "emptiness"
    /\ \E r \in st : ~ParsesAsTime(r.arrival_time)
    /\ st_active # {}

\* C29: in deep night every selected stop-time whose trip is not on a route
\* of type 1, a trip whose route has no routes row included, is still in
\* the table handed to the builder.
C29_OnlyMetroRemoved ==
    (Filtered /\ is_deep_night) =>
        \A r \in SelectedRows : ~IsMetroRow(r) => r \in st_active

\* C30: both endpoints of every emitted edge are ids of emitted nodes, and
\* no more edges are emitted than raw edges have both endpoints in
\* orig_to_new_id.
C30_EdgesReferenceNodes ==
    /\ \A k \in DOMAIN artifact : \A i \in DOMAIN artifact[k].edges :
           /\ artifact[k].edges[i][1] \in 0..(Len(artifact[k].nodes) - 1)
           /\ artifact[k].edges[i][2] \in 0..(Len(artifact[k].nodes) - 1)
    /\ Exported =>
           Len(artifact[1].edges)
             <= Cardinality({i \in DOMAIN G.edges :
                    /\ G.edges[i].u \in DOMAIN orig_to_new_id
                    /\ G.edges[i].v \in DOMAIN orig_to_new_id})

\* C30 witness: an artifact of at least two nodes has an edge ending at the
\* node with the highest id.
C30_Witness ==
    /\ Exported
    /\ Len(artifact[1].nodes) >= 2
    /\ \E i \in DOMAIN artifact[1].edges :
           artifact[1].edges[i][2] = Len(artifact[1].nodes) - 1

\* C25: a compilation invoked without --date does not end in an unhandled
\* exception.
C25_DateOptional == date_str = NoArg => pc # "raised"

\* the route short name of line_name as a str
LineText(line_name) ==
    CASE line_name = "A" -> <<"A">>
      [] line_name = "C1" -> <<"C", "1">>
      [] OTHER -> <<"n", "a", "n">>

\* the stop-time r is of a route of the --lines allow-list
Allowed(r) ==
    \E i \in DOMAIN Split(target_lines[1], ",") :
        Split(target_lines[1], ",")[i]
          = LineText(DictGet(route_map, feed_trips[r.trip_id].route_id, NaN))

\* C26: with a --lines allow-list no stop-time of a route outside the list is
\* handed to the graph builder.
C26_LinesAllowList ==
    (target_lines # NoArg /\ pc = "maps") => \A r \in st_active : Allowed(r)

\* the windows launched so far are the hours from START_HOUR_OF_DAY on, each
\* once and in increasing order; every message is about one launched window
\* and no window has two; a driver that entered the loop ends after 24 launches
EveryWindowOnce ==
    /\ \A i \in DOMAIN launched :
           /\ launched[i].start = IntToStr(START_HOUR_OF_DAY + (i - 1) * STEP_HOURS)
           /\ launched[i].end = IntToStr(START_HOUR_OF_DAY + i * STEP_HOURS)
    /\ \A i \in DOMAIN reported :
           /\ \E j \in DOMAIN launched : launched[j].out = reported[i].out
           /\ \A j \in DOMAIN reported : reported[j].out = reported[i].out => j = i
    /\ (batch_pc = "done" /\ gtfs_found /\ worker_found) =>
           Len(launched) = END_HOUR_OF_DAY - START_HOUR_OF_DAY

C28_UniqueRouteColors ==
    /\ \A i \in DOMAIN returned :
           IF returned[i].mode = "transfer"
           THEN returned[i].color = "#95a5a6" /\ returned[i].dash_array = <<"dash">>
           ELSE returned[i].color = color_map[returned[i].route_id]
    /\ \A r1, r2 \in DOMAIN color_map : r1 # r2 => color_map[r1] # color_map[r2]

\* the lines a desserte value lists
DesserteLines(desserte) == IF desserte = << >> THEN << >> ELSE Split(desserte, ",")

\* C27: in the finished database every desserte lists the lines of its
\* station (with NAVI1 for the four NAVI1 stations), none twice, in the
\* order of sort_lines_key.
C27_DesserteSorted ==
    db_pc = "done" =>
        \A n \in DOMAIN arrets :
            LET ls == DesserteLines(arrets[n].desserte)
            IN  /\ Range(ls) = Range(DictGet(route_names, n, << >>))
                                \cup (IF n \in Range(navi_stops) THEN {NAVI1} ELSE {})
                /\ \A i, j \in DOMAIN ls : i # j => ls[i] # ls[j]
                /\ \A i, j \in DOMAIN ls :
                       i < j => ~KeyLess(sort_lines_key(ls[j]), sort_lines_key(ls[i]))

====
